---- MODULE Spec2Model ----
(***************************************************************************)
(* A model of the NEXUS career-recommendation backend (src/main.py,        *)
(* src/skill_roadmaps.py): the in-memory career catalog, the skill roadmap *)
(* table, the four catalog endpoints and the career chat with its          *)
(* rule-based fallback.  A request is handled by one atomic handler action *)
(* and its response is then sent, which discards the transient request.    *)
(***************************************************************************)
EXTENDS Integers, Sequences, FiniteSets, TLC

VARIABLES
    careers,         \* module-level list loaded from careers.json
    SKILL_ROADMAPS,  \* module-level dict imported from skill_roadmaps.py
    hashSeed,        \* the process's string-hash seed: fixes set iteration order
    op,              \* the handler that produced the pending response, or "idle"
    req,             \* the request body of the pending response
    resp,            \* the pending response
    llm,             \* outcome of the external chat-completions call (career_chat)
    chat             \* locals of the last get_rule_based_response call

vars == <<careers, SKILL_ROADMAPS, hashSeed, op, req, resp, llm, chat>>

----------------------------------------------------------------------------
(* Bounds of the model *)

\* longest catalog that is loaded
MaxCatalog == 6

\* longest missing_skills list sent to career_chat
MaxMissing == 6

----------------------------------------------------------------------------
(* JSON values of a request body: a key may be absent, null, or hold a value *)

Absent == [t |-> "absent"]
Null == [t |-> "null"]
Str(s) == [t |-> "str", v |-> s]
List(l) == [t |-> "list", v |-> l]

\* dict.get(key, default)
Get(field, default) == IF field.t = "absent" THEN default ELSE field

\* Python truthiness of a JSON value
Truthy(x) ==
    CASE x.t = "str" -> x.v # ""
      [] x.t = "list" -> x.v # <<>>
      [] OTHER -> FALSE

Range(s) == {s[i] : i \in 1..Len(s)}

Min(a, b) == IF a < b THEN a ELSE b

\* s[:k]
Take(s, k) == SubSeq(s, 1, Min(k, Len(s)))

Reverse(s) == [i \in 1..Len(s) |-> s[Len(s) + 1 - i]]

----------------------------------------------------------------------------
(* Strings: str.lower() and the substring test `sub in s` *)

UpperChars == "ABCDEFGHIJKLMNOPQRSTUVWXYZ"
LowerChars == "abcdefghijklmnopqrstuvwxyz"

\* the lower-case letter of every upper-case letter
LowerOf ==
    [c \in {SubSeq(UpperChars, i, i) : i \in 1..Len(UpperChars)} |->
        LET i == CHOOSE j \in 1..Len(UpperChars) : SubSeq(UpperChars, j, j) = c
        IN SubSeq(LowerChars, i, i)]

LowerChar(c) == IF c \in DOMAIN LowerOf THEN LowerOf[c] ELSE c

RECURSIVE Lower(_)
Lower(s) ==
    IF Len(s) = 0 THEN ""
    ELSE LowerChar(SubSeq(s, 1, 1)) \o Lower(SubSeq(s, 2, Len(s)))

\* Python's `sub in s` for strings
Contains(s, sub) ==
    \E i \in 1..(Len(s) - Len(sub) + 1) : SubSeq(s, i, i + Len(sub) - 1) = sub

----------------------------------------------------------------------------
(* The career catalog *)

\* records that careers.json may hold; two of them share a name
CareerPool == {
    [career |-> "Software Engineer", interests |-> <<"Programming", "Data">>,
     required_skills |-> <<"Python", "Git">>, difficulty |-> "Medium"],
    [career |-> "Data Scientist", interests |-> <<"Data", "Design">>,
     required_skills |-> <<"Python", "SQL", "Statistics">>, difficulty |-> "Hard"],
    [career |-> "Software Engineer", interests |-> <<"Design", "AI", "Cooking", "Design">>,
     required_skills |-> <<"Figma", "Python", "Figma">>, difficulty |-> "Easy"]
}

Catalogs == UNION {[1..n -> CareerPool] : n \in 0..MaxCatalog}

\* list(set(a) - set(b)): the elements of a that are not in b, without
\* duplicates, in an iteration order that the hash seed decides
RECURSIVE Dedup(_)
Dedup(s) ==
    IF s = <<>> THEN <<>>
    ELSE LET rest == Dedup(SubSeq(s, 1, Len(s) - 1))
             x == s[Len(s)]
         IN IF x \in Range(rest) THEN rest ELSE Append(rest, x)

SetDifferenceList(a, b, seed) ==
    LET kept == SelectSeq(Dedup(a), LAMBDA x : x \notin Range(b))
    IN IF seed = 0 THEN kept ELSE Reverse(kept)

\* len(set(a).intersection(set(b)))
InterestMatch(a, b) == Cardinality(Range(a) \cap b)

----------------------------------------------------------------------------
(* The skill roadmap table of skill_roadmaps.py *)

SkillRoadmapTable ==
    [skill \in {"Python", "Data Structures", "Algorithms", "SQL",
                "Machine Learning", "Deep Learning", "Networking"} |->
        CASE skill = "Python" ->
               [beginner |-> <<"Syntax, variables, data types", "Loops and conditionals",
                               "Functions">>,
                intermediate |-> <<"Object-Oriented Programming", "Working with files",
                                   "Using libraries like NumPy, Pandas">>,
                advanced |-> <<"Build real-world projects", "Performance optimization",
                               "Interview-level problem solving">>]
          [] skill = "Data Structures" ->
               [beginner |-> <<"Arrays and strings", "Basic recursion">>,
                intermediate |-> <<"Linked lists, stacks, queues", "Trees and hash maps">>,
                advanced |-> <<"Graphs", "Competitive programming problems">>]
          [] skill = "Algorithms" ->
               [beginner |-> <<"Sorting basics", "Searching techniques">>,
                intermediate |-> <<"Greedy algorithms", "Divide and conquer">>,
                advanced |-> <<"Dynamic programming", "Advanced graph algorithms">>]
          [] skill = "SQL" ->
               [beginner |-> <<"SELECT, INSERT, UPDATE", "WHERE clause">>,
                intermediate |-> <<"JOINs", "Subqueries">>,
                advanced |-> <<"Query optimization", "Indexing">>]
          [] skill = "Machine Learning" ->
               [beginner |-> <<"What is ML", "Supervised vs Unsupervised learning">>,
                intermediate |-> <<"Regression and classification", "Model evaluation">>,
                advanced |-> <<"End-to-end ML projects", "Model deployment">>]
          [] skill = "Deep Learning" ->
               [beginner |-> <<"Neural networks basics", "Activation functions">>,
                intermediate |-> <<"CNNs and RNNs", "Training models">>,
                advanced |-> <<"Transformers", "Research papers">>]
          [] skill = "Networking" ->
               [beginner |-> <<"OSI model", "IP addressing">>,
                intermediate |-> <<"TCP/IP", "Routing and switching">>,
                advanced |-> <<"Network security", "Enterprise networking">>]]

----------------------------------------------------------------------------
(* Responses *)

NoResponse == [status |-> 0]
Ok(body) == [status |-> 200, body |-> body]
\* an exception that leaves the handler: the framework answers 500
Raised(exc) == [status |-> 500, exc |-> exc]

----------------------------------------------------------------------------
(* recommend_career and quiz_recommend_career *)

\* number of careers recommend_career returns
TopK == 3
\* number of careers quiz_recommend_career returns
QuizTopK == 5

IsMatchNonNegative(interest_match) == interest_match >= 0

\* the filter `if interest_match > 0`
IsMatch(interest_match) == interest_match > 0

MissingSkillsIgnoringCase(required_skills, current_skills) ==
    SetDifferenceList([i \in 1..Len(required_skills) |-> Lower(required_skills[i])],
                      [i \in 1..Len(current_skills) |-> Lower(current_skills[i])],
                      hashSeed)

\* list(set(career["required_skills"]) - set(current_skills))
MissingSkills(required_skills, current_skills) ==
    SetDifferenceList(required_skills, current_skills, hashSeed)

\* the dict appended to recommendations; branch, tools, certifications, exams
\* and future_trends are copied from the record the same way as required_skills
Recommendation(career, interest_match, current_skills) ==
    [career |-> career.career,
     interest_match_score |-> interest_match,
     missing_skills |-> MissingSkills(career.required_skills, current_skills),
     difficulty |-> career.difficulty,
     required_skills |-> career.required_skills]

\* the loop over careers: one Recommendation per matching record, in catalog order
RECURSIVE ScanCareers(_, _, _)
ScanCareers(cs, interests, current_skills) ==
    IF cs = <<>> THEN <<>>
    ELSE LET prev == ScanCareers(SubSeq(cs, 1, Len(cs) - 1), interests, current_skills)
             career == cs[Len(cs)]
             interest_match == InterestMatch(career.interests, interests)
         IN IF IsMatch(interest_match)
            THEN Append(prev, Recommendation(career, interest_match, current_skills))
            ELSE prev

InsertByScoreBeforeTies(sorted, x) ==
    LET n == Cardinality({i \in 1..Len(sorted) :
                 sorted[i].interest_match_score > x.interest_match_score})
    IN SubSeq(sorted, 1, n) \o <<x>> \o SubSeq(sorted, n + 1, Len(sorted))

\* where list.sort(key=score, reverse=True) puts x among the already sorted
\* elements that preceded it: the sort is stable, so behind every element whose
\* score is at least as high
InsertByScore(sorted, x) ==
    LET n == Cardinality({i \in 1..Len(sorted) :
                 sorted[i].interest_match_score >= x.interest_match_score})
    IN SubSeq(sorted, 1, n) \o <<x>> \o SubSeq(sorted, n + 1, Len(sorted))

\* recommendations.sort(key=lambda x: x["interest_match_score"], reverse=True)
RECURSIVE SortByScore(_)
SortByScore(recs) ==
    IF recs = <<>> THEN <<>>
    ELSE InsertByScore(SortByScore(SubSeq(recs, 1, Len(recs) - 1)), recs[Len(recs)])

recommend_career(student) ==
    Ok([student |-> student.name,
        recommended_careers |->
            Take(SortByScore(ScanCareers(careers, Range(student.interests),
                                         student.current_skills)), TopK)])

domain_interests ==
    [d \in {"T", "C", "B", "S", "R"} |->
        CASE d = "T" -> {"Programming", "AI", "Technology", "Data", "Cloud", "Security",
                         "Automation", "Robotics", "IoT", "Embedded Systems", "Software",
                         "Web Development", "Machine Learning", "Computer Vision",
                         "Networking", "Blockchain", "Quantum Computing"}
          [] d = "C" -> {"Design", "Media", "Animation", "Gaming", "Creative",
                         "Art", "Visual", "UX", "UI", "Graphics", "Multimedia",
                         "Video", "Audio", "Photography", "Content Creation"}
          [] d = "B" -> {"Management", "Business", "Sales", "Marketing", "Finance",
                         "Entrepreneurship", "Product", "Strategy", "Operations",
                         "Consulting", "Project Management", "Leadership", "Planning"}
          [] d = "S" -> {"Education", "Healthcare", "Community", "Counseling", "Social",
                         "Teaching", "Training", "Wellness", "Human Services",
                         "Non-profit", "Public Health", "Clinical", "Rehabilitation"}
          [] d = "R" -> {"Research", "Science", "Analysis", "Investigation",
                         "Data Analysis", "Statistics", "Academic", "Theoretical",
                         "Experimental", "Scientific", "Genomics", "Physics"}]

domain_names ==
    [d \in {"T", "C", "B", "S", "R"} |->
        CASE d = "T" -> "Technical"
          [] d = "C" -> "Creative"
          [] d = "B" -> "Business"
          [] d = "S" -> "Social"
          [] d = "R" -> "Research"]

RelevantInterestsNoDefault(domain) ==
    IF domain.t = "str" /\ domain.v \in DOMAIN domain_interests
    THEN domain_interests[domain.v]
    ELSE {}

\* domain_interests.get(domain, domain_interests["T"])
RelevantInterests(domain) ==
    IF domain.t = "str" /\ domain.v \in DOMAIN domain_interests
    THEN domain_interests[domain.v]
    ELSE domain_interests["T"]

\* {...}.get(domain, "General")
DomainName(domain) ==
    IF domain.t = "str" /\ domain.v \in DOMAIN domain_names
    THEN domain_names[domain.v]
    ELSE "General"

quiz_recommend_career(data) ==
    LET domain == Get(data.domain, Str(""))
        current_skills == Get(data.current_skills, List(<<>>)).v
    IN Ok([domain |-> domain,
           domain_name |-> DomainName(domain),
           recommended_careers |->
               Take(SortByScore(ScanCareers(careers, RelevantInterests(domain),
                                            current_skills)), QuizTopK)])

----------------------------------------------------------------------------
(* skill_gap and learning_roadmap *)

NameEqualsIgnoringCase(name, target_career) ==
    target_career.t = "str" /\ Lower(target_career.v) = Lower(name)

\* career["career"] == target_career
NameEquals(name, target_career) == target_career.t = "str" /\ target_career.v = name

RECURSIVE SkillGapScanFirstMatch(_, _, _)
SkillGapScanFirstMatch(cs, target_career, current_skills) ==
    IF cs = <<>> THEN <<>>
    ELSE LET career == cs[1]
         IN IF NameEquals(career.career, target_career)
            THEN [career |-> career.career,
                  missing_skills |->
                      MissingSkills(career.required_skills, current_skills)]
            ELSE SkillGapScanFirstMatch(SubSeq(cs, 2, Len(cs)), target_career,
                                        current_skills)

\* the loop of skill_gap: every matching record overwrites result
RECURSIVE SkillGapScan(_, _, _)
SkillGapScan(cs, target_career, current_skills) ==
    IF cs = <<>> THEN <<>>
    ELSE LET result == SkillGapScan(SubSeq(cs, 1, Len(cs) - 1), target_career,
                                    current_skills)
             career == cs[Len(cs)]
         IN IF NameEquals(career.career, target_career)
            THEN [career |-> career.career,
                  missing_skills |->
                      MissingSkills(career.required_skills, current_skills)]
            ELSE result

skill_gap(student) ==
    Ok(SkillGapScan(careers, Get(student.target_career, Null), student.current_skills))

RoadmapEntryAlwaysGeneric(skill) ==
    [beginner |-> <<"Learn basics of " \o skill>>,
     intermediate |-> <<"Practice " \o skill>>,
     advanced |-> <<"Build projects using " \o skill>>]

\* the entry learning_roadmap stores under roadmap[skill]
RoadmapEntry(skill) ==
    IF skill \in DOMAIN SKILL_ROADMAPS
    THEN SKILL_ROADMAPS[skill]
    ELSE [beginner |-> <<"Learn basics of " \o skill>>,
          intermediate |-> <<"Practice " \o skill>>,
          advanced |-> <<"Build projects using " \o skill>>]

\* the dict built by `for skill in missing_skills: roadmap[skill] = ...`
BuildRoadmap(missing_skills) ==
    [skill \in Range(missing_skills) |-> RoadmapEntry(skill)]

\* the loop of learning_roadmap: returns at the first matching record
RECURSIVE RoadmapScan(_, _, _)
RoadmapScan(cs, target_career, current_skills) ==
    IF cs = <<>> THEN [error |-> "Career not found"]
    ELSE LET career == cs[1]
         IN IF NameEquals(career.career, target_career)
            THEN LET missing_skills ==
                         MissingSkills(career.required_skills, current_skills)
                 IN [career |-> target_career.v,
                     missing_skills |-> missing_skills,
                     learning_roadmap |-> BuildRoadmap(missing_skills)]
            ELSE RoadmapScan(SubSeq(cs, 2, Len(cs)), target_career, current_skills)

learning_roadmap(student) ==
    Ok(RoadmapScan(careers, Get(student.target_career, Null),
                   Get(student.current_skills, List(<<>>)).v))

----------------------------------------------------------------------------
(* get_rule_based_response: the rule-based fallback of career_chat.  Its    *)
(* string literals are copied from the source without their non-ASCII       *)
(* characters (emoji, bullets, arrows, currency signs).                     *)

\* career_guidance, in the dict's insertion order
career_guidance == <<
    [key |-> "software engineer",
     description |-> "Software Engineers design, develop, and maintain software systems and applications.",
     skills |-> <<"Programming", "Data Structures", "Algorithms", "Version Control", "Testing">>,
     career_path |-> "Junior Dev  Senior Dev  Tech Lead  Engineering Manager  CTO",
     salary_range |-> "3-6L (Junior) to 30L+ (Senior)",
     growth_tips |-> "Contribute to open source, build projects, learn cloud technologies"],
    [key |-> "data scientist",
     description |-> "Data Scientists analyze complex data to help organizations make better decisions.",
     skills |-> <<"Python", "Machine Learning", "Statistics", "SQL", "Data Visualization">>,
     career_path |-> "Junior Data Scientist  Data Scientist  Senior Data Scientist  Lead/Principal  Chief Data Officer",
     salary_range |-> "4-8L (Junior) to 35L+ (Senior)",
     growth_tips |-> "Kaggle competitions, publish research, learn deep learning"],
    [key |-> "ai engineer",
     description |-> "AI Engineers develop and implement artificial intelligence solutions.",
     skills |-> <<"Python", "TensorFlow/PyTorch", "Machine Learning", "Neural Networks", "MLOps">>,
     career_path |-> "Junior AI Engineer  AI Engineer  Senior AI Engineer  AI Lead  AI Director",
     salary_range |-> "5-10L (Junior) to 40L+ (Senior)",
     growth_tips |-> "Build ML projects, read research papers, contribute to AI open source"],
    [key |-> "web developer",
     description |-> "Web Developers create and maintain websites and web applications.",
     skills |-> <<"HTML/CSS", "JavaScript", "React/Angular/Vue", "Node.js", "APIs">>,
     career_path |-> "Junior Developer  Frontend/Backend Developer  Senior Developer  Lead  Architect",
     salary_range |-> "3-6L (Junior) to 25L+ (Senior)",
     growth_tips |-> "Build a strong portfolio, learn modern frameworks, contribute to projects"],
    [key |-> "devops engineer",
     description |-> "DevOps Engineers bridge the gap between development and operations.",
     skills |-> <<"Linux", "Docker", "Kubernetes", "CI/CD", "Cloud Platforms">>,
     career_path |-> "Jr. DevOps  DevOps Engineer  Sr. DevOps  DevOps Lead  SRE Manager",
     salary_range |-> "4-8L (Junior) to 30L+ (Senior)",
     growth_tips |-> "Get cloud certifications, automate everything, learn infrastructure as code"],
    [key |-> "cybersecurity",
     description |-> "Security Engineers protect systems and data from cyber threats.",
     skills |-> <<"Network Security", "Penetration Testing", "Security Tools", "Compliance", "Incident Response">>,
     career_path |-> "Security Analyst  Security Engineer  Senior Security  Security Lead  CISO",
     salary_range |-> "4-8L (Junior) to 35L+ (Senior)",
     growth_tips |-> "Get certifications (CISSP, CEH), participate in bug bounties, stay updated"]
>>

\* keywords, in the dict's insertion order
keywords == <<
    [category |-> "salary",
     words |-> <<"salary", "package", "money", "earn", "compensation", "ctc">>],
    [category |-> "skills",
     words |-> <<"skill", "learn", "technology", "tech", "language", "framework", "missing">>],
    [category |-> "growth",
     words |-> <<"growth", "future", "career path", "promotion", "advance", "progress">>],
    [category |-> "job",
     words |-> <<"job", "interview", "resume", "hiring", "placement", "hunt">>],
    [category |-> "education",
     words |-> <<"course", "degree", "study", "college", "university", "masters">>],
    [category |-> "startup",
     words |-> <<"startup", "entrepreneurship", "own business", "founder">>],
    [category |-> "remote",
     words |-> <<"remote", "work from home", "wfh", "flexible">>]
>>

\* the slice missing_skills[:5]
TopSkills == 5

\* how an f-string renders a value
Format(x) == IF x.t = "str" THEN x.v ELSE IF x.t = "null" THEN "None" ELSE ""

\* "\n".join([f"(bullet) {skill}" for skill in skills])
RECURSIVE JoinBullets(_)
JoinBullets(skills) ==
    IF skills = <<>> THEN ""
    ELSE IF Len(skills) = 1 THEN " " \o skills[1]
    ELSE " " \o skills[1] \o "\n" \o JoinBullets(SubSeq(skills, 2, Len(skills)))

\* the f-string returned at line 353
Template353(career, guidance) ==
    " **Salary Overview for "
    \o Format(career)
    \o ":**\n\n"
    \o guidance.salary_range
    \o "\n\n **Factors affecting salary:**\n Your skills and experience lev"
    \o "el\n Company size and industry\n Location (metro cities offer more"
    \o ")\n Negotiation skills\n\nWould you like more specific salary infor"
    \o "mation for a particular company or location?"

\* the f-string returned at line 355
Template355(career) ==
    " **Salary Information for "
    \o Format(career)
    \o ":**\n\nSalaries vary based on:\n Experience level (entry-level to s"
    \o "enior)\n Company type (FAANG, startups, service-based)\n Location "
    \o "(metro vs tier-2 cities)\n Your skill set\n\n**Typical ranges:**\n E"
    \o "ntry level: 3-6 LPA\n Mid-level: 8-20 LPA\n Senior level: 20-50+ L"
    \o "PA\n\nSpecific companies like Google, Microsoft, Amazon offer 20-5"
    \o "0% higher packages."

\* the f-string returned at line 359
Template359(career, missing_skills) ==
    " **Skills to Develop for "
    \o Format(career)
    \o ":**\n\n**Priority Skills:**\n"
    \o JoinBullets(Take(missing_skills.v, TopSkills))
    \o "\n\n**Recommended Learning Path:**\n1. Start with fundamentals of e"
    \o "ach skill\n2. Build practical projects\n3. Get certifications if a"
    \o "vailable\n4. Practice on platforms like HackerRank\n5. Contribute "
    \o "to open source\n\n**Learning Resources:**\n Coursera, Udemy for cou"
    \o "rses\n YouTube tutorials\n Official documentation\n Hands-on projec"
    \o "ts"

\* the f-string returned at line 361
Template361(career, guidance) ==
    " **Essential Skills for "
    \o Format(career)
    \o ":**\n\n"
    \o JoinBullets(guidance.skills)
    \o "\n\n**How to build these skills:**\n1. **Programming:** Practice da"
    \o "ily on LeetCode, HackerRank\n2. **Frameworks:** Follow official d"
    \o "ocs and build projects\n3. **Tools:** Get hands-on experience thr"
    \o "ough internships\n4. **Soft Skills:** Take leadership roles in co"
    \o "llege projects\n\n**Recommended Resources:**\n Online courses (Cour"
    \o "sera, edX)\n Books and documentation\n Bootcamps and workshops"

\* the f-string returned at line 363
Template363(career) ==
    " **Skills Development for "
    \o Format(career)
    \o ":**\n\nTo excel in this career path, focus on:\n\n**Technical Skills"
    \o ":**\n Programming languages relevant to your field\n Data structur"
    \o "es and algorithms\n Version control (Git)\n Problem-solving abilit"
    \o "ies\n\n**Soft Skills:**\n Communication\n Team collaboration\n Time m"
    \o "anagement\n Continuous learning mindset\n\n**Action Steps:**\n1. Ide"
    \o "ntify specific skills needed from job postings\n2. Create a learn"
    \o "ing schedule\n3. Build real-world projects\n4. Get feedback and im"
    \o "prove"

\* the f-string returned at line 367
Template367(career, guidance) ==
    " **Career Growth Path for "
    \o Format(career)
    \o ":**\n\n**Typical Progression:**\n"
    \o guidance.career_path
    \o "\n\n**Growth Tips:**\n "
    \o guidance.growth_tips
    \o "\n\n**Key Milestones:**\n 0-2 years: Building fundamentals\n 2-5 yea"
    \o "rs: Specializing and taking ownership\n 5+ years: Leadership and "
    \o "strategic impact\n\n**What employers look for at each level:**\n Ju"
    \o "nior: Learning ability, coding skills\n Senior: Technical depth, "
    \o "mentoring\n Lead: Strategy, people management"

\* the f-string returned at line 369
Template369(career) ==
    " **Career Growth in "
    \o Format(career)
    \o ":**\n\n**Growth Strategies:**\n1. **Continuous Learning:** Stay upd"
    \o "ated with industry trends\n2. **Network:** Build professional rel"
    \o "ationships\n3. **Mentorship:** Find mentors and become one\n4. **V"
    \o "isibility:** Contribute to projects and communities\n5. **Results"
    \o ":** Deliver measurable impact\n\n**Timeline:**\n Year 1-2: Learn an"
    \o "d adapt\n Year 2-5: Specialize and lead\n Year 5+: Strategic impac"
    \o "t and leadership\n\n**Accelerate Your Growth:**\n Switch to product"
    \o " companies for faster growth\n Consider international opportuniti"
    \o "es\n Build a strong personal brand"

\* the f-string returned at line 372
Template372(career) ==
    " **Job Search Tips for "
    \o Format(career)
    \o ":**\n\n**Resume Tips:**\n Highlight relevant projects and skills\n U"
    \o "se action verbs and quantify achievements\n Tailor resume for eac"
    \o "h application\n Include GitHub/portfolio links\n\n**Interview Prepa"
    \o "ration:**\n Practice coding on LeetCode\n Prepare system design qu"
    \o "estions\n Study company-specific questions\n Mock interviews with "
    \o "peers\n\n**Where to Apply:**\n Company career pages\n LinkedIn, Nauk"
    \o "ri, Indeed\n referrals (most effective!)\n Campus placements\n\n**To"
    \o "p Companies:**\nFAANG, Microsoft, Goldman Sachs, and growing star"
    \o "tups"

\* the f-string returned at line 375
Template375(career) ==
    " **Educational Path for "
    \o Format(career)
    \o ":**\n\n**Minimum Requirements:**\n Bachelor's degree in relevant fi"
    \o "eld\n Strong foundation in programming/math\n\n**Recommended Course"
    \o "s:**\n Data Structures & Algorithms\n Database Management Systems\n"
    \o " Operating Systems\n Computer Networks\n\n**Higher Studies (Optiona"
    \o "l):**\n M.Tech for research roles\n MBA for management roles\n Cert"
    \o "ifications for specific skills\n\n**Self-Learning:**\n Online platf"
    \o "orms: Coursera, edX, Udemy\n Bootcamps for intensive training\n Op"
    \o "en source contributions"

\* the f-string returned at line 378
Template378(career) ==
    " **Startup Guidance for "
    \o Format(career)
    \o ":**\n\n**Starting a Tech Startup:**\n1. **Validate your idea:** Res"
    \o "earch market needs\n2. **Build an MVP:** Start with minimum featu"
    \o "res\n3. **Find co-founders:** Complementary skills\n4. **Get initi"
    \o "al users:** Early adopter program\n5. **Seek funding:** Angels, V"
    \o "Cs, incubators\n\n**Essential Skills:**\n Technical expertise (you "
    \o "need to build!)\n Business development\n Marketing and sales\n Fund"
    \o "raising\n\n**Resources:**\n Startup incubators (Y Combinator, 91spr"
    \o "ingboard)\n Government schemes\n Angel networks\n\n**Risk Assessment"
    \o ":**\n High risk, high reward\n Ensure financial runway of 12-18 mo"
    \o "nths"

\* the f-string returned at line 381
Template381(career) ==
    " **Remote Work in "
    \o Format(career)
    \o ":**\n\n**Remote-Friendly Aspects:**\n Software development is highl"
    \o "y remote-friendly\n Data science roles often allow remote work\n D"
    \o "evOps and cloud roles are remote-friendly\n\n**Tips for Remote Suc"
    \o "cess:**\n Create a dedicated workspace\n Maintain regular hours\n O"
    \o "ver-communicate with team\n Use collaboration tools effectively\n "
    \o "Build strong online presence\n\n**Companies Offering Remote:**\n Mo"
    \o "st tech companies post-pandemic\n Product companies are more flex"
    \o "ible\n Check job descriptions for remote policy\n\n**Building Remot"
    \o "e Career:**\n Time zone alignment matters\n Strong communication i"
    \o "s key\n Self-discipline and motivation essential"

\* the f-string returned at line 386
Template386(career, guidance) ==
    " **"
    \o Format(career)
    \o " Overview:**\n\n"
    \o guidance.description
    \o "\n\n**What you'll do:**\n Design and implement solutions\n Collabora"
    \o "te with cross-functional teams\n Stay updated with technology tre"
    \o "nds\n Solve complex problems\n\n**Best suited for you if:**\n You en"
    \o "joy problem-solving\n You like continuous learning\n You're detail"
    \o "-oriented\n You work well in teams\n\n**Getting Started:**\n1. Build"
    \o " a strong foundation in basics\n2. Create projects for your portf"
    \o "olio\n3. Network with professionals\n4. Apply for internships\n\nWou"
    \o "ld you like more specific information about any aspect?"

\* the f-string returned at line 388
Template388(career) ==
    " **"
    \o Format(career)
    \o " Career Guidance:**\n\nThis is a great career choice for engineeri"
    \o "ng students!\n\n**To succeed in this field:**\n Focus on core techn"
    \o "ical skills\n Build practical projects\n Stay updated with industr"
    \o "y trends\n Network with professionals\n\n**Next Steps:**\n1. Identif"
    \o "y specific skills needed\n2. Create a learning roadmap\n3. Start b"
    \o "uilding projects\n4. Apply for relevant positions\n\nWould you like"
    \o " personalized advice based on your profile?"

\* the f-string returned at line 390
Template390 ==
    " **Career Guidance Assistant:**\n\nI'd be happy to help with your "
    \o "career questions! You can ask me about:\n\n  Salary and compensati"
    \o "on\n  Skills to learn and develop\n  Career growth and progression"
    \o "\n  Job search and interview tips\n  Education and courses\n  Start"
    \o "up and entrepreneurship\n  Remote work opportunities\n\n**To provid"
    \o "e better guidance:**\n1. Fill in your profile details\n2. Get care"
    \o "er recommendations\n3. Ask specific questions\n\nWhat would you lik"
    \o "e to know more about?"

\* `key in career_lower or career_lower in key`
GuidanceMatches(key, career_lower) ==
    Contains(career_lower, key) \/ Contains(key, career_lower)

RECURSIVE FindGuidanceKeyInCareer(_, _)
FindGuidanceKeyInCareer(i, career_lower) ==
    IF i > Len(career_guidance) THEN 0
    ELSE IF Contains(career_lower, career_guidance[i].key) THEN i
    ELSE FindGuidanceKeyInCareer(i + 1, career_lower)

\* the loop over career_guidance.items() with its break: the index of the
\* first matching entry, 0 when guidance stays None
RECURSIVE FindGuidance(_, _)
FindGuidance(i, career_lower) ==
    IF i > Len(career_guidance) THEN 0
    ELSE IF GuidanceMatches(career_guidance[i].key, career_lower) THEN i
    ELSE FindGuidance(i + 1, career_lower)

RECURSIVE ScanKeywordsLastMatch(_, _)
ScanKeywordsLastMatch(i, question) ==
    IF i > Len(keywords) THEN Null
    ELSE LET later == ScanKeywordsLastMatch(i + 1, question)
         IN IF later.t = "str" THEN later
            ELSE IF \E word \in Range(keywords[i].words) : Contains(question, word)
                 THEN Str(keywords[i].category)
            ELSE Null

\* the nested loop over keywords.items(): the first category with a word in
\* the question, None when the loop ends without one
RECURSIVE ScanKeywords(_, _)
ScanKeywords(i, question) ==
    IF i > Len(keywords) THEN Null
    ELSE IF \E word \in Range(keywords[i].words) : Contains(question, word)
         THEN Str(keywords[i].category)
    ELSE ScanKeywords(i + 1, question)

\* the category after `if not category: category = "general"`
DetectCategory(question) ==
    LET category == ScanKeywords(1, question)
    IN IF ~Truthy(category) THEN "general" ELSE category.v

ReturnLineGuidanceFirst(category, has_guidance, has_missing_skills, has_career) ==
    CASE category = "salary" -> IF has_guidance THEN 353 ELSE 355
      [] category = "skills" ->
            IF has_guidance THEN 361 ELSE IF has_missing_skills THEN 359 ELSE 363
      [] category = "growth" -> IF has_guidance THEN 367 ELSE 369
      [] category = "job" -> 372
      [] category = "education" -> 375
      [] category = "startup" -> 378
      [] category = "remote" -> 381
      [] OTHER -> IF has_guidance THEN 386 ELSE IF has_career THEN 388 ELSE 390

\* the line of the return statement that the if/elif chain over category,
\* guidance, missing_skills and career reaches
ReturnLine(category, has_guidance, has_missing_skills, has_career) ==
    CASE category = "salary" -> IF has_guidance THEN 353 ELSE 355
      [] category = "skills" ->
            IF has_missing_skills THEN 359 ELSE IF has_guidance THEN 361 ELSE 363
      [] category = "growth" -> IF has_guidance THEN 367 ELSE 369
      [] category = "job" -> 372
      [] category = "education" -> 375
      [] category = "startup" -> 378
      [] category = "remote" -> 381
      [] OTHER -> IF has_guidance THEN 386 ELSE IF has_career THEN 388 ELSE 390

\* the string that the return statement at `line` builds
TextAt(line, career, guidance, missing_skills) ==
    CASE line = 353 -> Template353(career, guidance)
      [] line = 355 -> Template355(career)
      [] line = 359 -> Template359(career, missing_skills)
      [] line = 361 -> Template361(career, guidance)
      [] line = 363 -> Template363(career)
      [] line = 367 -> Template367(career, guidance)
      [] line = 369 -> Template369(career)
      [] line = 372 -> Template372(career)
      [] line = 375 -> Template375(career)
      [] line = 378 -> Template378(career)
      [] line = 381 -> Template381(career)
      [] line = 386 -> Template386(career, guidance)
      [] line = 388 -> Template388(career)
      [] line = 390 -> Template390

\* data.get("question", "").lower() raises AttributeError unless the value is
\* a string; so does career.lower() for a truthy career that is no string
get_rule_based_response(data) ==
    LET q == Get(data.question, Str(""))
        career == Get(data.career, Str(""))
        missing_skills == Get(data.missing_skills, List(<<>>))
    IN IF q.t # "str" \/ (Truthy(career) /\ career.t # "str")
       THEN [raised |-> TRUE, exc |-> "AttributeError"]
       ELSE LET question == Lower(q.v)
                career_lower == IF Truthy(career) THEN Lower(career.v) ELSE ""
                found == FindGuidance(1, career_lower)
                guidance == IF found = 0 THEN Null ELSE career_guidance[found]
                category == DetectCategory(question)
                line == ReturnLine(category, found # 0, Truthy(missing_skills),
                                   Truthy(career))
            IN [raised |-> FALSE, category |-> category, guidance |-> found,
                ret |-> line,
                text |-> TextAt(line, career, guidance, missing_skills)]

----------------------------------------------------------------------------
(* career_chat *)

\* the try block returns: requests.post returned a response with status 200
\* whose json() has choices[0].message.content
TryReturns(call) ==
    /\ call.outcome = "response"
    /\ call.status_code = 200
    /\ call.body.shape = "content"

\* whether career_chat reaches the fallback, for a given outcome of the call
UsesFallback(call) == ~TryReturns(call)

career_chat(data, call) ==
    IF TryReturns(call)
    THEN Ok([response |-> call.body.content])
    ELSE LET answer == get_rule_based_response(data)
         IN IF answer.raised THEN Raised(answer.exc)
            ELSE Ok([response |-> Str(answer.text)])

----------------------------------------------------------------------------
(* Request bodies *)

HashSeeds == {0, 1}

StudentNames == {"Asha"}

InterestLists == {<<>>, <<"Programming">>, <<"Data", "Data">>, <<"Programming", "Data">>,
                  <<"Design", "Data">>, <<"programming">>}

SkillLists == {<<>>, <<"Python">>, <<"python", "Git">>}

DomainValues == {Absent, Null, Str("T"), Str("C"), Str("B"), Str("S"), Str("R"),
                 Str("X"), Str("t")}

TargetCareers == {Absent, Null, Str("Software Engineer"), Str("Data Scientist"),
                  Str("software engineer"), Str("Chef")}

Questions == {"What salary can I expect?", "", "Hello there",
              "Which skills should I learn?", "What SKILL is missing?",
              "job salary", "Is there a future in it?", "resume tips",
              "Which course to study", "startup course", "founder",
              "WFH options", "remote job"}

QuestionValues == {Absent, Null} \cup {Str(q) : q \in Questions}

CareerValues == {Absent, Null, Str(""), Str("Software Engineer"), Str("Data Scientist"),
                 Str("Chef"), Str("Senior DevOps Engineer"), Str("Web"),
                 Str("Engineer")}

SkillNames == <<"Python", "Git", "SQL", "Docker">>

SkillList(n) == [i \in 1..n |-> SkillNames[((i - 1) % Len(SkillNames)) + 1]]

MissingSkillsValues == {Absent, Null, List(SkillList(0)), List(SkillList(1)),
                        List(SkillList(MaxMissing))}

\* education, interests and current_skills are only read by the prompt
ProfileValues == {
    [education |-> Str("B.Tech"), interests |-> List(<<"Programming">>),
     current_skills |-> List(<<"Python">>)],
    [education |-> Absent, interests |-> Absent, current_skills |-> Absent],
    [education |-> Null, interests |-> Null, current_skills |-> Null],
    [education |-> Null, interests |-> List(<<>>), current_skills |-> Absent]
}

\* what requests.post and response.json() can do
ResponseBodies == {[shape |-> "not_json"], [shape |-> "no_choices"],
                   [shape |-> "empty_choices"],
                   [shape |-> "content", content |-> Str("Focus on Python first.")],
                   [shape |-> "content", content |-> Null]}

LlmCalls ==
    {[outcome |-> "exception", exc |-> e] : e \in {"Timeout", "ConnectionError"}}
    \cup {[outcome |-> "response", status_code |-> 500, body |-> [shape |-> "not_json"]]}
    \cup {[outcome |-> "response", status_code |-> 200, body |-> b] : b \in ResponseBodies}

----------------------------------------------------------------------------
(* The state after the module is imported, and the handlers *)

NoChat == [used |-> FALSE]
NoCall == [outcome |-> "none"]

Init ==
    /\ careers \in Catalogs
    /\ SKILL_ROADMAPS = SkillRoadmapTable
    /\ hashSeed \in HashSeeds
    /\ op = "idle"
    /\ req = <<>>
    /\ resp = NoResponse
    /\ llm = NoCall
    /\ chat = NoChat

RecommendCareer ==
    /\ op = "idle"
    /\ \E name \in StudentNames, interests \in InterestLists, skills \in SkillLists :
         LET student == [name |-> name, interests |-> interests,
                         current_skills |-> skills]
         IN /\ req' = student
            /\ resp' = recommend_career(student)
    /\ op' = "recommend_career"
    /\ UNCHANGED <<careers, SKILL_ROADMAPS, hashSeed, llm, chat>>

QuizRecommendCareer ==
    /\ op = "idle"
    /\ \E domain \in DomainValues,
          skills \in {Absent} \cup {List(l) : l \in SkillLists} :
         LET data == [domain |-> domain, current_skills |-> skills]
         IN /\ req' = data
            /\ resp' = quiz_recommend_career(data)
    /\ op' = "quiz_recommend_career"
    /\ UNCHANGED <<careers, SKILL_ROADMAPS, hashSeed, llm, chat>>

SkillGap ==
    /\ op = "idle"
    /\ \E target \in TargetCareers, skills \in SkillLists :
         LET student == [target_career |-> target, current_skills |-> skills]
         IN /\ req' = student
            /\ resp' = skill_gap(student)
    /\ op' = "skill_gap"
    /\ UNCHANGED <<careers, SKILL_ROADMAPS, hashSeed, llm, chat>>

LearningRoadmapCachingEntries ==
    /\ op = "idle"
    /\ \E target \in TargetCareers,
          skills \in {Absent} \cup {List(l) : l \in SkillLists} :
         LET student == [target_career |-> target, current_skills |-> skills]
             answer == learning_roadmap(student)
             roadmap == IF "learning_roadmap" \in DOMAIN answer.body
                        THEN answer.body.learning_roadmap ELSE <<>>
         IN /\ req' = student
            /\ resp' = answer
            /\ SKILL_ROADMAPS' =
                  [skill \in DOMAIN SKILL_ROADMAPS \cup DOMAIN roadmap |->
                      IF skill \in DOMAIN SKILL_ROADMAPS THEN SKILL_ROADMAPS[skill]
                      ELSE roadmap[skill]]
    /\ op' = "learning_roadmap"
    /\ UNCHANGED <<careers, hashSeed, llm, chat>>

LearningRoadmap ==
    /\ op = "idle"
    /\ \E target \in TargetCareers,
          skills \in {Absent} \cup {List(l) : l \in SkillLists} :
         LET student == [target_career |-> target, current_skills |-> skills]
         IN /\ req' = student
            /\ resp' = learning_roadmap(student)
    /\ op' = "learning_roadmap"
    /\ UNCHANGED <<careers, SKILL_ROADMAPS, hashSeed, llm, chat>>

CareerChat ==
    /\ op = "idle"
    /\ \E question \in QuestionValues, career \in CareerValues,
          missing_skills \in MissingSkillsValues, profile \in ProfileValues,
          call \in LlmCalls :
         LET data == [education |-> profile.education,
                      interests |-> profile.interests,
                      current_skills |-> profile.current_skills, career |-> career,
                      missing_skills |-> missing_skills, question |-> question]
             answer == get_rule_based_response(data)
         IN /\ req' = data
            /\ llm' = call
            /\ resp' = career_chat(data, call)
            /\ chat' = IF ~UsesFallback(call) THEN NoChat
                       ELSE IF answer.raised THEN [used |-> TRUE, raised |-> TRUE]
                       ELSE [used |-> TRUE, raised |-> FALSE,
                             category |-> answer.category,
                             guidance |-> answer.guidance, ret |-> answer.ret]
    /\ op' = "career_chat"
    /\ UNCHANGED <<careers, SKILL_ROADMAPS, hashSeed>>

\* the framework sends the handler's return value; request and response are
\* transient and nothing of them is kept
SendResponse ==
    /\ op # "idle"
    /\ op' = "idle"
    /\ req' = <<>>
    /\ resp' = NoResponse
    /\ llm' = NoCall
    /\ chat' = NoChat
    /\ UNCHANGED <<careers, SKILL_ROADMAPS, hashSeed>>

\* the four endpoints that read the catalog
NextCatalog ==
    \/ RecommendCareer
    \/ QuizRecommendCareer
    \/ SkillGap
    \/ LearningRoadmap
    \/ SendResponse

SpecCatalog == Init /\ [][NextCatalog]_vars

\* the catalog of the one-record example: career_chat does not read it
ExampleCatalog ==
    <<[career |-> "Software Engineer", interests |-> <<"Programming", "Data">>,
       required_skills |-> <<"Python", "Git">>, difficulty |-> "Medium"]>>

InitChat ==
    /\ careers = ExampleCatalog
    /\ SKILL_ROADMAPS = SkillRoadmapTable
    /\ hashSeed \in HashSeeds
    /\ op = "idle"
    /\ req = <<>>
    /\ resp = NoResponse
    /\ llm = NoCall
    /\ chat = NoChat

NextChat ==
    \/ CareerChat
    \/ SendResponse

SpecChat == InitChat /\ [][NextChat]_vars

\* two catalogs: the one-record example, and a two-record one
SampleCatalogs ==
    {ExampleCatalog}
    \cup {c \in Catalogs : /\ Len(c) = 2
                           /\ c[1].career = "Data Scientist"
                           /\ c[2].difficulty = "Easy"}

InitSample ==
    /\ careers \in SampleCatalogs
    /\ SKILL_ROADMAPS = SkillRoadmapTable
    /\ hashSeed \in HashSeeds
    /\ op = "idle"
    /\ req = <<>>
    /\ resp = NoResponse
    /\ llm = NoCall
    /\ chat = NoChat

\* the five endpoints, in any order
Next ==
    \/ RecommendCareer
    \/ QuizRecommendCareer
    \/ SkillGap
    \/ LearningRoadmap
    \/ CareerChat
    \/ SendResponse

Spec == InitSample /\ [][Next]_vars

----------------------------------------------------------------------------
(* Properties of recommend_career and quiz_recommend_career *)

IsRecommendation == op \in {"recommend_career", "quiz_recommend_career"}

\* the recommended_careers list of the pending response
RecommendedCareers == IF IsRecommendation THEN resp.body.recommended_careers ELSE <<>>

\* the interests the pending request is matched against
QueryInterests ==
    IF op = "recommend_career" THEN Range(req.interests)
    ELSE RelevantInterests(Get(req.domain, Str("")))

\* the current skills of the pending request
QueryCurrentSkills ==
    IF op = "recommend_career" THEN Range(req.current_skills)
    ELSE Range(Get(req.current_skills, List(<<>>)).v)

\* the size of the list the pending request asks for
QueryK == IF op = "recommend_career" THEN TopK ELSE QuizTopK

\* |queryInterests /\ record.interests| of every catalog record
Scores ==
    LET q == QueryInterests
    IN [i \in 1..Len(careers) |-> Cardinality(Range(careers[i].interests) \cap q)]

Score(i) == Scores[i]

Matching == LET sc == Scores IN {i \in 1..Len(careers) : sc[i] > 0}

\* C1: recommended_careers is ordered non-increasing by interest_match_score
\* and every entry has interest_match_score >= 1: each entry is a catalog
\* record whose interest overlap with the query is its score and is positive.
C1_SortedByPositiveScore ==
    LET rc == RecommendedCareers
        sc == Scores
    IN /\ \A i \in 1..Len(rc) :
            /\ rc[i].interest_match_score >= 1
            /\ \E j \in 1..Len(careers) :
                  /\ careers[j].career = rc[i].career
                  /\ sc[j] = rc[i].interest_match_score
       /\ \A i \in 1..(Len(rc) - 1) :
            rc[i].interest_match_score >= rc[i + 1].interest_match_score

\* a direct query answered with three careers of falling score while the
\* catalog also holds a record that shares no interest with the query
C1_Witness ==
    /\ op = "recommend_career"
    /\ Len(RecommendedCareers) = 3
    /\ RecommendedCareers[1].interest_match_score > RecommendedCareers[3].interest_match_score
    /\ \E j \in 1..Len(careers) : Score(j) = 0

\* C2: the missing_skills of every Recommendation, read as a set, are exactly
\* the record's required_skills without the request's current_skills, compared
\* by case-sensitive string equality.
C2_MissingSkillsExact ==
    \A i \in 1..Len(RecommendedCareers) :
        LET r == RecommendedCareers[i]
        IN /\ \E j \in 1..Len(careers) :
                 /\ careers[j].career = r.career
                 /\ careers[j].required_skills = r.required_skills
           /\ Range(r.missing_skills) = Range(r.required_skills) \ QueryCurrentSkills

\* a student who has "Git" and "python" still misses "Python" and only that
C2_Witness ==
    /\ op = "recommend_career"
    /\ QueryCurrentSkills = {"python", "Git"}
    /\ \E i \in 1..Len(RecommendedCareers) :
          /\ Range(RecommendedCareers[i].required_skills) = {"Python", "Git"}
          /\ RecommendedCareers[i].missing_skills = <<"Python">>

\* for every matching record, the number of matching records that precede it
\* in the stable descending order: those of higher score, and those of equal
\* score that come earlier in the catalog
Ranks ==
    LET sc == Scores
        m == {i \in 1..Len(careers) : sc[i] > 0}
    IN [i \in m |->
           Cardinality({j \in m : sc[j] > sc[i] \/ (sc[j] = sc[i] /\ j < i)})]

Rank(i) == Ranks[i]

\* C3: the returned list is the first K (3 direct, 5 quiz) elements of the
\* stable descending-by-score order of the matching records: its length is
\* min(K, number of matching records) and the matching record of rank n < K is
\* its (n+1)-th entry.
C3_TopKOfStableOrder ==
    IsRecommendation =>
        LET rc == RecommendedCareers
            sc == Scores
            rank == Ranks
        IN /\ Len(rc) = Min(QueryK, Cardinality(DOMAIN rank))
           /\ \A i \in DOMAIN rank :
                 rank[i] < QueryK =>
                    /\ rc[rank[i] + 1].career = careers[i].career
                    /\ rc[rank[i] + 1].interest_match_score = sc[i]
                    /\ rc[rank[i] + 1].required_skills = careers[i].required_skills
                    /\ rc[rank[i] + 1].difficulty = careers[i].difficulty

\* a quiz answer cut to five careers, with a tie between two different
\* records and a matching record left out
C3_Witness ==
    /\ op = "quiz_recommend_career"
    /\ Cardinality(Matching) > QuizTopK
    /\ Len(RecommendedCareers) = QuizTopK
    /\ RecommendedCareers[1].interest_match_score > RecommendedCareers[5].interest_match_score
    /\ \E a, b \in Matching :
          /\ a < b
          /\ Score(a) = Score(b)
          /\ careers[a] # careers[b]
          /\ Rank(b) < QuizTopK

IsKnownDomain(domain) == domain.t = "str" /\ domain.v \in {"T", "C", "B", "S", "R"}

\* the response to the pending quiz request had its domain been "T"
ResponseForT ==
    quiz_recommend_career([domain |-> Str("T"), current_skills |-> req.current_skills])

\* C4 as stated: for an unrecognized or absent domain code the response of
\* quiz_recommend_career is the same as its response for domain "T".
C4_SameResponseAsT ==
    (op = "quiz_recommend_career" /\ ~IsKnownDomain(req.domain)) => resp = ResponseForT

\* C4 amended: for an unrecognized or absent domain code the recommended_careers
\* list is the one returned for domain "T", while the response echoes the
\* submitted domain ("" when absent) and names it "General", not "Technical".
C4_SameCareersAsT ==
    (op = "quiz_recommend_career" /\ ~IsKnownDomain(req.domain)) =>
        /\ resp.body.recommended_careers = ResponseForT.body.recommended_careers
        /\ resp.body.domain = Get(req.domain, Str(""))
        /\ resp.body.domain_name = "General"
        /\ ResponseForT.body.domain_name = "Technical"

\* domain "X" answered with the technical careers
C4_Witness ==
    /\ op = "quiz_recommend_career"
    /\ req.domain = Str("X")
    /\ Len(RecommendedCareers) >= 2

----------------------------------------------------------------------------
(* Properties of skill_gap and learning_roadmap *)

\* some catalog record is named exactly as the pending request's target_career
TargetInCatalog ==
    \E i \in 1..Len(careers) : req.target_career = Str(careers[i].career)

\* the entry the fallback templates give for a skill
GenericEntry(skill) ==
    [beginner |-> <<"Learn basics of " \o skill>>,
     intermediate |-> <<"Practice " \o skill>>,
     advanced |-> <<"Build projects using " \o skill>>]

\* C5: when learning_roadmap finds the target career, the keys of
\* learning_roadmap are exactly the returned missing_skills, which hold no
\* skill twice; a key of the Skill Roadmap Table maps to its table entry and
\* any other key to one beginner, one intermediate and one advanced item
\* ("Learn basics of X", "Practice X", "Build projects using X"), each
\* containing the skill name.
C5_RoadmapKeysAndEntries ==
    (op = "learning_roadmap" /\ "learning_roadmap" \in DOMAIN resp.body) =>
        LET missing == resp.body.missing_skills
            roadmap == resp.body.learning_roadmap
        IN /\ DOMAIN roadmap = Range(missing)
           /\ Len(missing) = Cardinality(DOMAIN roadmap)
           /\ \A skill \in DOMAIN roadmap :
                 IF skill \in DOMAIN SkillRoadmapTable
                 THEN roadmap[skill] = SkillRoadmapTable[skill]
                 ELSE /\ roadmap[skill] = GenericEntry(skill)
                      /\ \A tier \in {"beginner", "intermediate", "advanced"} :
                            /\ Len(roadmap[skill][tier]) = 1
                            /\ Contains(roadmap[skill][tier][1], skill)

\* a roadmap with a skill of the table and a skill that is not in it
C5_Witness ==
    /\ op = "learning_roadmap"
    /\ "learning_roadmap" \in DOMAIN resp.body
    /\ {"SQL", "Statistics"} \subseteq DOMAIN resp.body.learning_roadmap
    /\ resp.body.learning_roadmap["SQL"] = SkillRoadmapTable["SQL"]
    /\ resp.body.learning_roadmap["Statistics"].intermediate = <<"Practice Statistics">>

\* C10: when no catalog record is named target_career, skill_gap returns {}
\* and learning_roadmap returns exactly {"error": "Career not found"}; when
\* some record is, neither returns that payload and both return the fields
\* career and missing_skills.
C10_NotFoundPayloads ==
    /\ op = "skill_gap" =>
          IF TargetInCatalog
          THEN {"career", "missing_skills"} \subseteq DOMAIN resp.body
          ELSE DOMAIN resp.body = {}
    /\ op = "learning_roadmap" =>
          IF TargetInCatalog
          THEN /\ {"career", "missing_skills"} \subseteq DOMAIN resp.body
               /\ "error" \notin DOMAIN resp.body
          ELSE /\ DOMAIN resp.body = {"error"}
               /\ resp.body.error = "Career not found"

\* "software engineer" is not found in a catalog that holds "Software Engineer"
C10_Witness ==
    /\ op = "learning_roadmap"
    /\ req.target_career = Str("software engineer")
    /\ \E i \in 1..Len(careers) : careers[i].career = "Software Engineer"
    /\ resp.body = [error |-> "Career not found"]

----------------------------------------------------------------------------
(* Properties of career_chat and get_rule_based_response *)

\* the fallback ran for the pending career_chat response
FallbackRan == op = "career_chat" /\ chat.used

\* the fallback ran and returned
FallbackReturned == FallbackRan /\ ~chat.raised

\* the external call succeeded with status 200 and a well-formed body, whose
\* choices[0].message.content is a string
WellFormedSuccess ==
    /\ llm.outcome = "response"
    /\ llm.status_code = 200
    /\ llm.body.shape = "content"
    /\ llm.body.content.t = "str"

\* C6: whatever the request body, with any of its fields missing or null,
\* get_rule_based_response (and career_chat falling back to it) does not raise
\* and returns a non-empty string.
C6_FallbackNeverRaises ==
    FallbackRan =>
        /\ ~chat.raised
        /\ resp.status = 200
        /\ resp.body.response.t = "str"
        /\ Len(resp.body.response.v) > 0

\* C7: if the external call succeeds with status 200 and a well-formed body,
\* the response is its choices[0].message.content and the fallback is not
\* used; on every other outcome no failure reaches the caller and the response
\* is the fallback's answer for the same request.
C7_LlmAnswerOrFallback ==
    op = "career_chat" =>
        IF WellFormedSuccess
        THEN /\ resp = Ok([response |-> llm.body.content])
             /\ ~chat.used
        ELSE /\ chat.used
             /\ resp.status = 200
             /\ resp.body.response.t = "str"
             /\ ~get_rule_based_response(req).raised
             /\ resp.body.response.v = get_rule_based_response(req).text

\* the lower-cased question of the pending request
LoweredQuestion == Lower(Get(req.question, Str("")).v)

\* C8: the category is that of the first entry of keywords, in the order
\* salary, skills, growth, job, education, startup, remote, with a keyword that
\* is a substring of the lower-cased question, and "general" exactly when no
\* keyword of any category occurs; "What salary can I expect?" about
\* "Software Engineer" gets the salary answer with guidance.
C8_FirstMatchingCategory ==
    FallbackReturned =>
        LET question == LoweredQuestion
            hit == [i \in 1..Len(keywords) |->
                       \E j \in 1..Len(keywords[i].words) :
                           Contains(question, keywords[i].words[j])]
        IN /\ [i \in 1..Len(keywords) |-> keywords[i].category] =
                 <<"salary", "skills", "growth", "job", "education", "startup", "remote">>
           /\ \A i \in 1..Len(keywords) :
                 chat.category = keywords[i].category <=>
                     (hit[i] /\ \A j \in 1..(i - 1) : ~hit[j])
           /\ chat.category = "general" <=> \A i \in 1..Len(keywords) : ~hit[i]
           /\ req.question = Str("What SKILL is missing?") => chat.category = "skills"
           /\ req.question = Str("Which skills should I learn?") => chat.category = "salary"
           /\ (req.question = Str("What salary can I expect?")
               /\ req.career = Str("Software Engineer")) =>
                 /\ chat.category = "salary"
                 /\ chat.guidance # 0
                 /\ chat.ret = 353

\* the salary question about "Software Engineer" with no missing skills
C8_Witness ==
    /\ FallbackReturned
    /\ req.question = Str("What salary can I expect?")
    /\ req.career = Str("Software Engineer")
    /\ ~Truthy(Get(req.missing_skills, List(<<>>)))
    /\ chat.ret = 353
    /\ resp.body.response.v = Template353(req.career, career_guidance[1])

\* the return statements of the guidance variants
GuidanceLines == {353, 361, 367, 386}

HasMissingSkills == Truthy(Get(req.missing_skills, List(<<>>)))
HasCareer == Truthy(Get(req.career, Str("")))

\* C9 as stated: in salary, skills, growth and general the variant follows the
\* precedence guidance > missing-skills > career-name > fully generic: the
\* guidance variant whenever guidance was found, the missing-skills variant
\* only without guidance and with missing_skills, the fully generic variant
\* only without guidance, missing-skills variant and career name.
C9_GuidanceFirst ==
    (FallbackReturned /\ chat.category \in {"salary", "skills", "growth", "general"}) =>
        /\ chat.guidance # 0 => chat.ret \in GuidanceLines
        /\ chat.ret = 359 => (chat.guidance = 0 /\ HasMissingSkills)
        /\ chat.ret = 390 => (chat.guidance = 0 /\ ~HasCareer)

\* C9 amended: salary, growth and general return the guidance variant whenever
\* guidance was found; without guidance salary and growth return their other
\* variant, and general the career-name variant when career is non-empty and
\* the fully generic one only when career is empty too.  In skills the
\* missing-skills variant comes first: it is returned whenever missing_skills
\* is non-empty, the guidance variant only when missing_skills is empty and
\* guidance was found, the generic variant when both are absent.
C9_MissingSkillsFirstInSkills ==
    FallbackReturned =>
        /\ chat.category = "salary" => chat.ret = IF chat.guidance # 0 THEN 353 ELSE 355
        /\ chat.category = "growth" => chat.ret = IF chat.guidance # 0 THEN 367 ELSE 369
        /\ chat.category = "general" =>
              /\ chat.guidance # 0 => chat.ret = 386
              /\ (chat.guidance = 0 /\ HasCareer) => chat.ret = 388
              /\ chat.ret = 390 => (chat.guidance = 0 /\ ~HasCareer)
        /\ chat.category = "skills" =>
              /\ HasMissingSkills => chat.ret = 359
              /\ (~HasMissingSkills /\ chat.guidance # 0) => chat.ret = 361
              /\ (~HasMissingSkills /\ chat.guidance = 0) => chat.ret = 363

\* a skills question with both guidance and missing skills at hand
C9_Witness ==
    /\ FallbackReturned
    /\ chat.category = "skills"
    /\ chat.guidance # 0
    /\ HasMissingSkills
    /\ chat.ret = 359

----------------------------------------------------------------------------
(* Properties of the shared tables *)

\* what the handler of the pending request returns for that request, computed
\* from the tables as they are in the current state
HandlerResponse ==
    CASE op = "recommend_career" -> recommend_career(req)
      [] op = "quiz_recommend_career" -> quiz_recommend_career(req)
      [] op = "skill_gap" -> skill_gap(req)
      [] op = "learning_roadmap" -> learning_roadmap(req)
      [] op = "career_chat" -> career_chat(req, llm)
      [] OTHER -> NoResponse

----------------------------------------------------------------------------
(* skill_gap against learning_roadmap *)

\* the catalog records named exactly as the pending request's target_career
NamedAsTarget == {i \in 1..Len(careers) : req.target_career = Str(careers[i].career)}

NamesUnique ==
    \A i, j \in 1..Len(careers) : careers[i].career = careers[j].career => i = j

\* the current skills of the pending skill_gap or learning_roadmap request
GapCurrentSkills ==
    IF op = "skill_gap" THEN req.current_skills
    ELSE Get(req.current_skills, List(<<>>)).v

\* what the other of the two endpoints returns for the pending request
OtherEndpointBody ==
    IF op = "skill_gap"
    THEN learning_roadmap([target_career |-> req.target_career,
                           current_skills |-> List(GapCurrentSkills)]).body
    ELSE skill_gap([target_career |-> req.target_career,
                    current_skills |-> GapCurrentSkills]).body

\* C12: when several records are named target_career, the career and
\* missing_skills of skill_gap come from the last of them in catalog order and
\* those of learning_roadmap from the first; when the names of the catalog are
\* unique, the two endpoints return the same set of missing skills for the
\* same request.
C12_LastAgainstFirstMatch ==
    (op \in {"skill_gap", "learning_roadmap"} /\ NamedAsTarget # {}) =>
        LET named == NamedAsTarget
            last == CHOOSE i \in named : \A j \in named : j <= i
            first == CHOOSE i \in named : \A j \in named : i <= j
            used == IF op = "skill_gap" THEN last ELSE first
        IN /\ resp.body.career = careers[used].career
           /\ Range(resp.body.missing_skills) =
                 Range(careers[used].required_skills) \ Range(GapCurrentSkills)
           /\ NamesUnique =>
                 Range(resp.body.missing_skills) =
                     Range(OtherEndpointBody.missing_skills)

\* skill_gap answered from the last of two records of one name, whose missing
\* skills differ from those of the first, which learning_roadmap returns
C12_Witness ==
    /\ op = "skill_gap"
    /\ Cardinality(NamedAsTarget) >= 2
    /\ "Figma" \in Range(resp.body.missing_skills)
    /\ "Git" \in Range(OtherEndpointBody.missing_skills)
    /\ Range(resp.body.missing_skills) # Range(OtherEndpointBody.missing_skills)

----------------------------------------------------------------------------
(* The career-guidance lookup of get_rule_based_response *)

\* the lower-cased career of the pending request, "" for a falsy career
LoweredCareer ==
    LET career == Get(req.career, Str(""))
    IN IF Truthy(career) THEN Lower(career.v) ELSE ""

\* C13: the guidance is the first entry of career_guidance, in table order,
\* whose key is a substring of the lower-cased career or has it as a
\* substring, and none when there is no such entry; a request whose career is
\* empty, null or absent gets the first entry, "software engineer"; guidance
\* is absent only for a non-empty career, and the fully generic template of
\* the general category is never returned.
C13_FirstGuidanceEitherWay ==
    FallbackReturned =>
        LET career_lower == LoweredCareer
            fits == {i \in 1..Len(career_guidance) :
                        \/ Contains(career_lower, career_guidance[i].key)
                        \/ Contains(career_guidance[i].key, career_lower)}
        IN /\ IF fits = {} THEN chat.guidance = 0
              ELSE /\ chat.guidance \in fits
                   /\ \A i \in fits : chat.guidance <= i
           /\ ~HasCareer =>
                 /\ chat.guidance = 1
                 /\ career_guidance[1].key = "software engineer"
           /\ chat.guidance = 0 => HasCareer
           /\ chat.ret # 390
           /\ chat.category = "general" =>
                 resp.body.response.v #
                     TextAt(390, Get(req.career, Str("")), Null, List(<<>>))

\* a general question without a career is answered with the overview of the
\* first entry
C13_Witness ==
    /\ FallbackReturned
    /\ req.career = Absent
    /\ chat.category = "general"
    /\ chat.guidance = 1
    /\ chat.ret = 386
    /\ resp.body.response.v = Template386(Str(""), career_guidance[1])

====
